---- MODULE Spec2Model ----
(***************************************************************************)
(* Model of spanner/spanner_arrays/main.go: the sample provisions a        *)
(* database, loads fixture rows, runs one query that aggregates child rows *)
(* into an array, prints one line per row and drops the database.          *)
(*                                                                         *)
(* Strings are sequences of one-character strings, so that the regexp      *)
(* match, Sprintf and strings.Join are computed character by character.    *)
(*                                                                         *)
(* Spec    models one run of main().                                       *)
(* SpecDb  models the database under the schema issued by createDatabase,  *)
(*         with loadPresets, the query and the formatting loop of main     *)
(*         applied to arbitrary admissible contents.                       *)
(***************************************************************************)
EXTENDS Integers, Sequences, FiniteSets, TLC

VARIABLES pc, dsn, status, deferred, events, createReq, createRet, createOutcome,
          admin, client, cursor, it, stops, closes, dropOk,
          db, pre, rows, out, lastOp, lastErr

\* pc            position of main: the call it makes next, "return" while the
\*               deferred calls run, "exited" after the process has ended
\* dsn           the value of the -database flag
\* status        exit status of the process, -1 while it runs
\* deferred      the deferred calls of main, in the order of their defer
\* events        the calls made to the admin API and the data API, in order
\* createReq     the CreateDatabaseRequest submitted by createDatabase
\* createRet     what createDatabase returned to main
\* createOutcome what the service did with the create request
\* admin, client, it   the admin client, the data client and the row iterator:
\*               "none", "open" or "closed"
\* stops, closes number of it.Stop and of client.Close calls
\* dropOk        result of the DropDatabase request
\* db            the database: whether it exists, and its two tables
\* cursor        the Countries rows the iterator has still to return
\* rows, out     the Country structs decoded so far and the lines logged
\* pre, lastOp, lastErr   the tables before the last request made against
\*               them, that request and its error
vars == <<pc, dsn, status, deferred, events, createReq, createRet, createOutcome,
          admin, client, cursor, it, stops, closes, dropOk,
          db, pre, rows, out, lastOp, lastErr>>

Nil == "nil"
\* A STRING column value: NULL or a string.
NULL == [isNull |-> TRUE, v |-> <<>>]
Str(s) == [isNull |-> FALSE, v |-> s]

(***************************************************************************)
(* Strings                                                                 *)
(***************************************************************************)
Sep == <<"/", "d", "a", "t", "a", "b", "a", "s", "e", "s", "/">>
JoinSep == <<",", " ">>
ColonSep == <<":", " ">>
nullString == <<"<", "n", "u", "l", "l", ">">>
\* The backquote character is written "BQ": the lexer rejects it inside a string.
Backtick == <<"BQ">>
CreatePrefix == <<"C", "R", "E", "A", "T", "E", " ", "D", "A", "T", "A", "B", "A", "S", "E", " ">> \o Backtick

Germany == <<"G", "e", "r", "m", "a", "n", "y">>
UnitedKingdom == <<"U", "n", "i", "t", "e", "d", " ", "K", "i", "n", "g", "d", "o", "m">>
Berlin == <<"B", "e", "r", "l", "i", "n">>
Hamburg == <<"H", "a", "m", "b", "u", "r", "g">>
Dresden == <<"D", "r", "e", "s", "d", "e", "n">>
London == <<"L", "o", "n", "d", "o", "n">>
Liverpool == <<"L", "i", "v", "e", "r", "p", "o", "o", "l">>
Bristol == <<"B", "r", "i", "s", "t", "o", "l">>
Newcastle == <<"N", "e", "w", "c", "a", "s", "t", "l", "e">>

\* Bound on the number of pieces an identifier given to -database is built from.
MaxPieces == 3

Pieces == {<<"p">>, <<"/">>, <<"\n">>, Sep}

RECURSIVE Concats(_)
Concats(n) ==
  IF n = 0 THEN {<<>>}
  ELSE LET shorter == Concats(n - 1)
       IN shorter \cup {s \o p : s \in shorter, p \in Pieces}

Identifiers == Concats(MaxPieces)

\* '.' of Go's regexp does not match a newline unless flag s is set.
DotStar(s) == \A i \in 1..Len(s) : s[i] # "\n"

\* regexp.MustCompile("^(.*)/databases/(.*)$").FindStringSubmatch(s):
\* nil when there is no match, else <<whole, group 1, group 2>>; the first
\* group is greedy, so the leftmost-first match takes the longest prefix.
FindStringSubmatch_Swapped(s) ==
  LET cuts == {i \in 0..(Len(s) - Len(Sep)) :
                 /\ SubSeq(s, i + 1, i + Len(Sep)) = Sep
                 /\ DotStar(SubSeq(s, 1, i))
                 /\ DotStar(SubSeq(s, i + Len(Sep) + 1, Len(s)))}
  IN IF cuts = {} THEN <<>>
     ELSE LET i == CHOOSE c \in cuts : \A d \in cuts : d <= c
          IN <<s, SubSeq(s, i + Len(Sep) + 1, Len(s)), SubSeq(s, 1, i)>>

FindStringSubmatch(s) ==
  LET cuts == {i \in 0..(Len(s) - Len(Sep)) :
                 /\ SubSeq(s, i + 1, i + Len(Sep)) = Sep
                 /\ DotStar(SubSeq(s, 1, i))
                 /\ DotStar(SubSeq(s, i + Len(Sep) + 1, Len(s)))}
  IN IF cuts = {} THEN <<>>
     ELSE LET i == CHOOSE c \in cuts : \A d \in cuts : d <= c
          IN <<s, SubSeq(s, 1, i), SubSeq(s, i + Len(Sep) + 1, Len(s))>>

\* fmt.Sprintf of the CREATE DATABASE statement around the quoted name
CreateStatement(name) == CreatePrefix \o name \o Backtick

(***************************************************************************)
(* The database under the schema of createDatabase                         *)
(***************************************************************************)
\* Countries(CountryId INT64 NOT NULL, Name STRING(1024) NOT NULL)
\*   PRIMARY KEY (CountryId)
\* Cities(CountryId INT64 NOT NULL, CityId INT64 NOT NULL, Name STRING(MAX))
\*   PRIMARY KEY (CountryId, CityId),
\*   INTERLEAVE IN PARENT Countries ON DELETE CASCADE
EmptyDb == [exists |-> TRUE, Countries |-> {}, Cities |-> {}]
NoDb == [exists |-> FALSE, Countries |-> {}, Cities |-> {}]

InsertCountry(CountryId, Name) ==
  [op |-> "insert", table |-> "Countries",
   row |-> [CountryId |-> CountryId, Name |-> Name]]
InsertCity(CountryId, CityId, Name) ==
  [op |-> "insert", table |-> "Cities",
   row |-> [CountryId |-> CountryId, CityId |-> CityId, Name |-> Name]]
DeleteCountry(CountryId) ==
  [op |-> "delete", table |-> "Countries", row |-> [CountryId |-> CountryId]]

\* One mutation against the tables: [db, err].
ApplyMutation_NoCascade(d, m) ==
  IF m.op = "insert" /\ m.table = "Countries" THEN
    IF \E c \in d.Countries : c.CountryId = m.row.CountryId
      THEN [db |-> d, err |-> "AlreadyExists"]
    ELSE IF m.row.Name = NULL
      THEN [db |-> d, err |-> "FailedPrecondition"]
    ELSE [db |-> [d EXCEPT !.Countries = @ \cup {m.row}], err |-> Nil]
  ELSE IF m.op = "insert" /\ m.table = "Cities" THEN
    IF \E c \in d.Cities : c.CountryId = m.row.CountryId /\ c.CityId = m.row.CityId
      THEN [db |-> d, err |-> "AlreadyExists"]
    ELSE IF ~ \E c \in d.Countries : c.CountryId = m.row.CountryId
      THEN [db |-> d, err |-> "NotFound"]
    ELSE [db |-> [d EXCEPT !.Cities = @ \cup {m.row}], err |-> Nil]
  ELSE
    [db |-> [d EXCEPT !.Countries = {c \in @ : c.CountryId # m.row.CountryId}],
     err |-> Nil]

ApplyMutation(d, m) ==
  IF m.op = "insert" /\ m.table = "Countries" THEN
    IF \E c \in d.Countries : c.CountryId = m.row.CountryId
      THEN [db |-> d, err |-> "AlreadyExists"]
    ELSE IF m.row.Name = NULL
      THEN [db |-> d, err |-> "FailedPrecondition"]
    ELSE [db |-> [d EXCEPT !.Countries = @ \cup {m.row}], err |-> Nil]
  ELSE IF m.op = "insert" /\ m.table = "Cities" THEN
    IF \E c \in d.Cities : c.CountryId = m.row.CountryId /\ c.CityId = m.row.CityId
      THEN [db |-> d, err |-> "AlreadyExists"]
    ELSE IF ~ \E c \in d.Countries : c.CountryId = m.row.CountryId
      THEN [db |-> d, err |-> "NotFound"]
    ELSE [db |-> [d EXCEPT !.Cities = @ \cup {m.row}], err |-> Nil]
  ELSE
    [db |-> [d EXCEPT !.Countries = {c \in @ : c.CountryId # m.row.CountryId},
                      !.Cities = {c \in @ : c.CountryId # m.row.CountryId}],
     err |-> Nil]

\* The mutations of a batch applied in order, stopping at the first error.
RECURSIVE ApplyInOrder(_, _)
ApplyInOrder(d, mx) ==
  IF mx = <<>> THEN [db |-> d, err |-> Nil]
  ELSE LET r == ApplyMutation(d, Head(mx))
       IN IF r.err # Nil THEN r ELSE ApplyInOrder(r.db, Tail(mx))

\* db.Apply(ctx, mx): one read-write transaction, committed whole or not at all.
Apply_NotAtomic(d, mx) ==
  IF ~ d.exists THEN [db |-> d, err |-> "NotFound"]
  ELSE ApplyInOrder(d, mx)

Apply(d, mx) ==
  IF ~ d.exists THEN [db |-> d, err |-> "NotFound"]
  ELSE LET r == ApplyInOrder(d, mx)
       IN IF r.err # Nil THEN [db |-> d, err |-> r.err] ELSE r

\* The batch of loadPresets, in the order of the slice literal.
Presets ==
  << InsertCountry(49, Str(Germany)),
     InsertCity(49, 100, Str(Berlin)),
     InsertCity(49, 101, Str(Hamburg)),
     InsertCity(49, 102, Str(Dresden)),
     InsertCountry(44, Str(UnitedKingdom)),
     InsertCity(44, 200, Str(London)),
     InsertCity(44, 201, Str(Liverpool)),
     InsertCity(44, 202, Str(Bristol)),
     InsertCity(44, 203, Str(Newcastle)) >>

\* loadPresets with every mutation sent in a transaction of its own.
loadPresets_OneByOne(d) == Apply_NotAtomic(d, Presets)

\* loadPresets with InsertOrUpdateMap in place of InsertMap: rows already
\* stored are overwritten instead of rejected.
loadPresets_Upsert(d) ==
  IF ~ d.exists THEN [db |-> d, err |-> "NotFound"]
  ELSE LET keys == {Presets[i].row.CountryId : i \in 1..Len(Presets)}
           wiped == [d EXCEPT
                       !.Countries = {c \in @ : c.CountryId \notin keys},
                       !.Cities = {c \in @ : \A i \in 1..Len(Presets) :
                                      \/ Presets[i].table # "Cities"
                                      \/ Presets[i].row.CountryId # c.CountryId
                                      \/ Presets[i].row.CityId # c.CityId}]
       IN Apply(wiped, Presets)

loadPresets(d) == Apply(d, Presets)

(***************************************************************************)
(* The query and the formatting loop of main                               *)
(***************************************************************************)
\* All the orders in which the rows of a set can be returned.
Perms(S) ==
  {f \in [1..Cardinality(S) -> S] : \A i, j \in 1..Cardinality(S) : f[i] = f[j] => i = j}

\* Decoding of a STRING column into spanner.NullString (row.ToStruct).
ToNullString(v) ==
  IF v.isNull THEN [StringVal |-> <<>>, Valid |-> FALSE]
  ELSE [StringVal |-> v.v, Valid |-> TRUE]

\* ARRAY(SELECT b.Name FROM Cities b WHERE a.CountryId = b.CountryId): the
\* names of the matching rows, in any order, decoded into []NullString.
CityArrays_NotNull(d, CountryId) ==
  LET matching == {b \in d.Cities : b.CountryId = CountryId /\ b.Name # NULL}
  IN {[i \in 1..Cardinality(matching) |-> ToNullString(p[i].Name)] : p \in Perms(matching)}

CityArrays(d, CountryId) ==
  LET matching == {b \in d.Cities : b.CountryId = CountryId}
  IN {[i \in 1..Cardinality(matching) |-> ToNullString(p[i].Name)] : p \in Perms(matching)}

\* SELECT a.Name AS Name, ARRAY(...) AS Cities FROM Countries a: the rows a
\* the cursor has still to return; the engine returns them in any order.
Query_Join(d) == {a \in d.Countries : \E b \in d.Cities : a.CountryId = b.CountryId}

Query(d) == d.Countries

\* it.Next() and row.ToStruct(&country) on a cursor with rows left: the
\* Country struct decoded from one of them, and the rows left after it.
NextRows(d, cur) ==
  UNION {{[country |-> [Name |-> a.Name.v, Cities |-> arr], rest |-> cur \ {a}] :
            arr \in CityArrays(d, a.CountryId)} : a \in cur}

\* spanner.NullString.String()
String_Elide(c) == IF ~ c.Valid THEN <<>> ELSE c.StringVal

String(c) == IF ~ c.Valid THEN nullString ELSE c.StringVal

\* strings.Join(elems, sep)
RECURSIVE Join(_, _)
Join(elems, sep) ==
  IF elems = <<>> THEN <<>>
  ELSE IF Len(elems) = 1 THEN elems[1]
  ELSE elems[1] \o sep \o Join(Tail(elems), sep)

\* The body of the loop of main for one row: the cities slice built by
\* append, and the text given to log.Printf("%s: %s", ...).
FormatRow(country) ==
  LET cities == [i \in 1..Len(country.Cities) |-> String(country.Cities[i])]
  IN country.Name \o ColonSep \o Join(cities, JoinSep)

(***************************************************************************)
(* One run of main()                                                       *)
(***************************************************************************)
NoReq == [Parent |-> <<>>, CreateStatement |-> <<>>, sent |-> FALSE]

\* createDatabase(ctx, adminClient, db).  outcome is what the service does
\* with the request: "rpcErr" (CreateDatabase returns an error), "opFailed"
\* (op.Wait reports that provisioning failed), "waitErr" (op.Wait returns an
\* error although the database got created) or "ok".
\* The err tested after op.Wait is declared by the if statement and shadows
\* the err of the function body, which is the one returned: it is nil
\* whenever CreateDatabase itself returned no error.
createDatabase(s, outcome) ==
  LET matches == FindStringSubmatch(s)
  IN IF matches = <<>> \/ Len(matches) # 3
       THEN [fatal |-> TRUE, req |-> NoReq, ret |-> "none", db |-> NoDb]
     ELSE [fatal |-> FALSE,
           req |-> [Parent |-> matches[2],
                    CreateStatement |-> CreateStatement(matches[3]),
                    sent |-> TRUE],
           ret |-> IF outcome = "rpcErr" THEN "error" ELSE Nil,
           db |-> IF outcome \in {"ok", "waitErr"} THEN EmptyDb ELSE NoDb]

CreateOutcomes == {"rpcErr", "opFailed", "waitErr", "ok"}

\* log.Fatalf: os.Exit(1); the deferred calls of main do not run.
Fatalf ==
  /\ pc' = "exited"
  /\ status' = 1
  /\ deferred' = deferred

\* The deferred call that runs next when main returns.
NextDeferred_FIFO(stack) == 1

NextDeferred(stack) == Len(stack)

dbVars == <<pre, lastOp, lastErr>>

NewDatabaseAdminClient ==
  /\ pc = "NewDatabaseAdminClient"
  /\ events' = Append(events, "NewDatabaseAdminClient")
  /\ \E ok \in BOOLEAN :
       IF ok
         THEN /\ admin' = "open"
              /\ deferred' = Append(deferred, "admin.Close")
              /\ pc' = "createDatabase"
              /\ status' = status
         ELSE /\ admin' = admin
              /\ Fatalf
  /\ UNCHANGED <<dsn, createReq, createRet, createOutcome, client, cursor, it,
                 stops, closes, dropOk, db, rows, out>>
  /\ UNCHANGED dbVars

CreateDatabaseStep ==
  /\ pc = "createDatabase"
  /\ \E outcome \in CreateOutcomes :
       LET r == createDatabase(dsn, outcome)
       IN IF r.fatal
            THEN /\ createOutcome' = "invalid"
                 /\ UNCHANGED <<events, createReq, createRet, db>>
                 /\ Fatalf
            ELSE /\ createOutcome' = outcome
                 /\ events' = Append(events, "CreateDatabase")
                 /\ createReq' = r.req
                 /\ createRet' = r.ret
                 /\ db' = r.db
                 /\ IF r.ret # Nil
                      THEN Fatalf
                      ELSE /\ deferred' = Append(deferred, "removeDatabase")
                           /\ pc' = "NewClient"
                           /\ status' = status
  /\ UNCHANGED <<dsn, admin, client, cursor, it, stops, closes, dropOk, rows, out>>
  /\ UNCHANGED dbVars

NewClient ==
  /\ pc = "NewClient"
  /\ events' = Append(events, "NewClient")
  /\ \E ok \in BOOLEAN :
       IF ok
         THEN /\ client' = "open"
              /\ deferred' = Append(deferred, "client.Close")
              /\ pc' = "loadPresets"
              /\ status' = status
         ELSE /\ client' = client
              /\ Fatalf
  /\ UNCHANGED <<dsn, createReq, createRet, createOutcome, admin, cursor, it,
                 stops, closes, dropOk, db, rows, out>>
  /\ UNCHANGED dbVars

LoadPresetsStep ==
  /\ pc = "loadPresets"
  /\ events' = Append(events, "Apply")
  /\ \E fault \in BOOLEAN :
       LET r == IF fault THEN [db |-> db, err |-> "Unavailable"] ELSE loadPresets(db)
       IN /\ db' = r.db
          /\ IF r.err # Nil
               THEN Fatalf
               ELSE /\ pc' = "Query"
                    /\ UNCHANGED <<status, deferred>>
  /\ UNCHANGED <<dsn, createReq, createRet, createOutcome, admin, client, cursor,
                 it, stops, closes, dropOk, rows, out>>
  /\ UNCHANGED dbVars

QueryStep ==
  /\ pc = "Query"
  /\ events' = Append(events, "Query")
  /\ it' = "open"
  /\ cursor' = Query(db)
  /\ deferred' = Append(deferred, "it.Stop")
  /\ pc' = "Next"
  /\ UNCHANGED <<dsn, status, createReq, createRet, createOutcome, admin, client,
                 stops, closes, dropOk, db, rows, out>>
  /\ UNCHANGED dbVars

\* One iteration of the for loop: it.Next, row.ToStruct, the cities slice and
\* log.Printf.
NextStep ==
  /\ pc = "Next"
  /\ \E outcome \in {"row", "readErr", "structErr"} :
       IF outcome = "readErr" \/ ~ db.exists
         THEN /\ Fatalf
              /\ UNCHANGED <<cursor, rows, out>>
       ELSE IF cursor = {}
         THEN /\ outcome = "row"
              /\ pc' = "return"
              /\ UNCHANGED <<status, deferred, cursor, rows, out>>
       ELSE \E nx \in NextRows(db, cursor) :
              /\ cursor' = nx.rest
              /\ IF outcome = "structErr"
                   THEN /\ Fatalf
                        /\ UNCHANGED <<rows, out>>
                   ELSE /\ rows' = Append(rows, nx.country)
                        /\ out' = Append(out, FormatRow(nx.country))
                        /\ UNCHANGED <<pc, status, deferred>>
  /\ UNCHANGED <<dsn, events, createReq, createRet, createOutcome, admin, client,
                 it, stops, closes, dropOk, db>>
  /\ UNCHANGED dbVars

\* main returns: the deferred calls run, last deferred first.
RunDeferred ==
  /\ pc = "return"
  /\ deferred # <<>>
  /\ LET k == NextDeferred(deferred)
         call == deferred[k]
         rest == [i \in 1..(Len(deferred) - 1) |->
                    IF i < k THEN deferred[i] ELSE deferred[i + 1]]
     IN \/ /\ call = "it.Stop"
           /\ events' = Append(events, "Stop")
           /\ it' = "closed"
           /\ stops' = stops + 1
           /\ deferred' = rest
           /\ UNCHANGED <<pc, status, client, closes, admin, dropOk, db>>
        \/ /\ call = "client.Close"
           /\ events' = Append(events, "Close")
           /\ client' = "closed"
           /\ closes' = closes + 1
           /\ deferred' = rest
           /\ UNCHANGED <<pc, status, it, stops, admin, dropOk, db>>
        \/ /\ call = "removeDatabase"
           /\ events' = Append(events, "DropDatabase")
           /\ \E ok \in BOOLEAN :
                IF ok
                  THEN /\ dropOk' = "ok"
                       /\ db' = NoDb
                       /\ deferred' = rest
                       /\ UNCHANGED <<pc, status>>
                  ELSE /\ dropOk' = "failed"
                       /\ db' = db
                       /\ Fatalf
           /\ UNCHANGED <<it, stops, client, closes, admin>>
        \/ /\ call = "admin.Close"
           /\ events' = Append(events, "AdminClose")
           /\ admin' = "closed"
           /\ deferred' = rest
           /\ UNCHANGED <<pc, status, it, stops, client, closes, dropOk, db>>
  /\ UNCHANGED <<dsn, createReq, createRet, createOutcome, cursor, rows, out>>
  /\ UNCHANGED dbVars

Exit ==
  /\ pc = "return"
  /\ deferred = <<>>
  /\ pc' = "exited"
  /\ status' = 0
  /\ UNCHANGED <<dsn, deferred, events, createReq, createRet, createOutcome, admin,
                 client, cursor, it, stops, closes, dropOk, db, rows, out>>
  /\ UNCHANGED dbVars

Init ==
  /\ pc = "NewDatabaseAdminClient"
  /\ dsn \in Identifiers
  /\ status = -1
  /\ deferred = <<>>
  /\ events = <<>>
  /\ createReq = NoReq
  /\ createRet = "none"
  /\ createOutcome = "none"
  /\ admin = "none"
  /\ client = "none"
  /\ cursor = {}
  /\ it = "none"
  /\ stops = 0
  /\ closes = 0
  /\ dropOk = "none"
  /\ db = NoDb
  /\ pre = NoDb
  /\ rows = <<>>
  /\ out = <<>>
  /\ lastOp = <<"none", 0>>
  /\ lastErr = Nil

Next ==
  \/ NewDatabaseAdminClient
  \/ CreateDatabaseStep
  \/ NewClient
  \/ LoadPresetsStep
  \/ QueryStep
  \/ NextStep
  \/ RunDeferred
  \/ Exit

Spec == Init /\ [][Next]_vars

(***************************************************************************)
(* The database under the schema, with the operations of the program       *)
(* applied to arbitrary admissible contents                                *)
(***************************************************************************)
CountryIds == {1, 44, 49}
CountryNames == {Str(<<"x">>), NULL}
CityKeys == {<<1, 100>>, <<1, 101>>, <<49, 100>>}
CityNames == {NULL, Str(<<"a">>), Str(<<"a", ",", " ", "b">>)}

\* One request against the tables; none is made while the loop below is
\* reading its snapshot.
DbStep(name, arg, r) ==
  /\ pc = "db"
  /\ cursor = {}
  /\ cursor' = {}
  /\ pre' = db
  /\ db' = r.db
  /\ lastOp' = <<name, arg>>
  /\ lastErr' = r.err
  /\ rows' = <<>>
  /\ out' = <<>>
  /\ UNCHANGED <<pc, dsn, status, deferred, events, createReq, createRet,
                 createOutcome, admin, client, it, stops, closes, dropOk>>

DbInsertCountry ==
  \E id \in CountryIds, name \in CountryNames :
    DbStep("insertCountry", id, Apply(db, <<InsertCountry(id, name)>>))

DbInsertCity ==
  \E key \in CityKeys, name \in CityNames :
    DbStep("insertCity", key[1], Apply(db, <<InsertCity(key[1], key[2], name)>>))

DbDeleteCountry ==
  \E id \in CountryIds :
    DbStep("deleteCountry", id, Apply(db, <<DeleteCountry(id)>>))

DbLoadPresets == DbStep("loadPresets", 0, loadPresets(db))

\* The query of main: the cursor is opened on a snapshot of the tables.
DbQuery ==
  /\ pc = "db"
  /\ cursor = {}
  /\ pre' = db
  /\ db' = db
  /\ lastOp' = <<"query", 0>>
  /\ lastErr' = Nil
  /\ cursor' = Query(db)
  /\ rows' = <<>>
  /\ out' = <<>>
  /\ UNCHANGED <<pc, dsn, status, deferred, events, createReq, createRet,
                 createOutcome, admin, client, it, stops, closes, dropOk>>

\* One iteration of the loop of main on a row of the cursor.
DbNext ==
  /\ pc = "db"
  /\ cursor # {}
  /\ \E nx \in NextRows(db, cursor) :
       /\ cursor' = nx.rest
       /\ rows' = Append(rows, nx.country)
       /\ out' = Append(out, FormatRow(nx.country))
  /\ UNCHANGED <<pc, dsn, status, deferred, events, createReq, createRet,
                 createOutcome, admin, client, it, stops, closes, dropOk>>
  /\ UNCHANGED <<db, pre, lastOp, lastErr>>

InitDb ==
  /\ pc = "db"
  /\ dsn = <<>>
  /\ status = -1
  /\ deferred = <<>>
  /\ events = <<>>
  /\ createReq = NoReq
  /\ createRet = "none"
  /\ createOutcome = "none"
  /\ admin = "none"
  /\ client = "none"
  /\ cursor = {}
  /\ it = "none"
  /\ stops = 0
  /\ closes = 0
  /\ dropOk = "none"
  /\ db = EmptyDb
  /\ pre = EmptyDb
  /\ rows = <<>>
  /\ out = <<>>
  /\ lastOp = <<"none", 0>>
  /\ lastErr = Nil

NextDb ==
  \/ DbInsertCountry
  \/ DbInsertCity
  \/ DbDeleteCountry
  \/ DbLoadPresets
  \/ DbQuery
  \/ DbNext

SpecDb == InitDb /\ [][NextDb]_vars

(***************************************************************************)
(* Properties                                                              *)
(***************************************************************************)
Occurred(e) == \E i \in 1..Len(events) : events[i] = e

IsPrefix(s, t) == Len(s) <= Len(t) /\ s = SubSeq(t, 1, Len(s))

\* strings.Split(s, sep) for a non-empty sep.
RECURSIVE Split(_, _)
Split(s, sep) ==
  LET hits == {i \in 1..(Len(s) - Len(sep) + 1) : SubSeq(s, i, i + Len(sep) - 1) = sep}
  IN IF hits = {} THEN <<s>>
     ELSE LET i == CHOOSE h \in hits : \A g \in hits : h <= g
          IN <<SubSeq(s, 1, i - 1)>> \o Split(SubSeq(s, i + Len(sep), Len(s)), sep)

Contains(s, sep) ==
  \E i \in 1..(Len(s) - Len(sep) + 1) : SubSeq(s, i, i + Len(sep) - 1) = sep

\* What the text of an array element has to be: the value, or the marker
\* for a null.
Rendered(c) == IF c.Valid THEN c.StringVal ELSE nullString

RenderedAll(country) == [k \in 1..Len(country.Cities) |-> Rendered(country.Cities[k])]

\* The elements of the joined part of a line, an empty joined part standing
\* for an empty array.
HasElements(joined, expected) ==
  IF expected = <<>> THEN joined = <<>> ELSE Split(joined, JoinSep) = expected

JoinedPart(line, country) == SubSeq(line, Len(country.Name) + Len(ColonSep) + 1, Len(line))

HeadPart(line, country) == SubSeq(line, 1, Len(country.Name) + Len(ColonSep))

\* The rendered elements written one after the other with ", " between.
RECURSIVE Separated(_)
Separated(elems) ==
  IF elems = <<>> THEN <<>>
  ELSE IF Len(elems) = 1 THEN Head(elems)
  ELSE Head(elems) \o JoinSep \o Separated(Tail(elems))

\* The identifier is some parent, then "/databases/", then some name.
HasForm(s) ==
  \E i \in 0..(Len(s) - Len(Sep)) : SubSeq(s, i + 1, i + Len(Sep)) = Sep

CreateDatabaseActed == createOutcome # "none"

NameOfRequest ==
  SubSeq(createReq.CreateStatement, Len(CreatePrefix) + 1, Len(createReq.CreateStatement) - 1)

RequestSplits(s) ==
  /\ createReq.sent
  /\ createReq.CreateStatement = CreatePrefix \o NameOfRequest \o Backtick
  /\ createReq.Parent \o Sep \o NameOfRequest = s

ReportsInvalid ==
  /\ ~ createReq.sent
  /\ ~ Occurred("CreateDatabase")
  /\ createOutcome = "invalid"
  /\ pc = "exited"
  /\ status = 1

\* C1: in every run in which createDatabase returned without error, a
\* drop-database request has been submitted by the time the process has
\* exited, whatever way the workflow ended.
C1_DropOnEveryExit ==
  (pc = "exited" /\ createRet = Nil) => Occurred("DropDatabase")

\* C2: when the create-database submission fails or the provisioning
\* operation reports failure, createDatabase returns a non-nil error and
\* main ends fatally: no data client is opened, loadPresets is not called
\* and no query is issued.
C2_CreateFailureIsFatal ==
  createOutcome \in {"rpcErr", "opFailed"} =>
    /\ createRet = "error"
    /\ pc = "exited"
    /\ status = 1
    /\ ~ Occurred("NewClient")
    /\ ~ Occurred("Apply")
    /\ ~ Occurred("Query")

\* C3: when the process has exited, the data client, if it was opened, has
\* been closed exactly once, and so has the cursor.
C3_ClosedExactlyOnce ==
  pc = "exited" =>
    /\ client # "none" => (closes = 1 /\ client = "closed")
    /\ it # "none" => (stops = 1 /\ it = "closed")

\* C7 as stated: for every identifier of the form parent/databases/name the
\* create request carries a parent and a name that give back the identifier
\* around "/databases/"; for every other string an invalid identifier is
\* reported and no request is submitted.
C7_Original ==
  CreateDatabaseActed =>
    IF HasForm(dsn) THEN RequestSplits(dsn) ELSE ReportsInvalid

\* C7 amended: the same for the identifiers of that form that hold no
\* newline; an identifier holding a newline is reported invalid like the
\* strings that are not of the form.
C7_SplitsIdentifier ==
  CreateDatabaseActed =>
    IF HasForm(dsn) /\ DotStar(dsn) THEN RequestSplits(dsn) ELSE ReportsInvalid

C7_Witness ==
  /\ createReq.sent
  /\ Contains(createReq.Parent, Sep)
  /\ NameOfRequest # <<>>

CanonicalOrder ==
  <<"NewDatabaseAdminClient", "CreateDatabase", "NewClient", "Apply", "Query",
    "Stop", "Close", "DropDatabase", "AdminClose">>

\* C10: the external steps of a run happen in the order admin client,
\* create-database, data client, fixtures, query, and on normal end of the
\* cursor cursor stop, client close, drop-database, admin close; a drop is
\* never submitted before the create of the run nor while the cursor or
\* the data client is open, and a failed drop leaves the admin client open.
C10_OrderOfSteps ==
  /\ IsPrefix(events, CanonicalOrder)
  /\ Occurred("DropDatabase") =>
       /\ Occurred("CreateDatabase")
       /\ it = "closed"
       /\ client = "closed"
  /\ (pc = "exited" /\ status = 0) => events = CanonicalOrder
  /\ dropOk = "failed" => (pc = "exited" /\ status = 1 /\ admin = "open")

C10_Witness ==
  /\ pc = "exited"
  /\ status = 0
  /\ events = CanonicalOrder
  /\ Len(out) = 2

PresetCountries ==
  {[CountryId |-> 49, Name |-> Str(Germany)],
   [CountryId |-> 44, Name |-> Str(UnitedKingdom)]}

PresetCities ==
  {[CountryId |-> 49, CityId |-> 100, Name |-> Str(Berlin)],
   [CountryId |-> 49, CityId |-> 101, Name |-> Str(Hamburg)],
   [CountryId |-> 49, CityId |-> 102, Name |-> Str(Dresden)],
   [CountryId |-> 44, CityId |-> 200, Name |-> Str(London)],
   [CountryId |-> 44, CityId |-> 201, Name |-> Str(Liverpool)],
   [CountryId |-> 44, CityId |-> 202, Name |-> Str(Bristol)],
   [CountryId |-> 44, CityId |-> 203, Name |-> Str(Newcastle)]}

HoldsPresetKeys(d) ==
  /\ \A p \in PresetCountries : \E c \in d.Countries : c.CountryId = p.CountryId
  /\ \A p \in PresetCities :
       \E c \in d.Cities : c.CountryId = p.CountryId /\ c.CityId = p.CityId

\* C4: after a call of loadPresets either the call succeeded and the 9
\* fixture rows have been added to what was stored, or it failed and the
\* tables hold exactly what they held before the call.
C4_AtomicBatch ==
  lastOp[1] = "loadPresets" =>
    \/ /\ lastErr = Nil
       /\ db.Countries = pre.Countries \cup PresetCountries
       /\ db.Cities = pre.Cities \cup PresetCities
       /\ Cardinality(db.Countries) = Cardinality(pre.Countries) + 2
       /\ Cardinality(db.Cities) = Cardinality(pre.Cities) + 7
    \/ /\ lastErr # Nil
       /\ db = pre

\* A failed call whose first mutations were admissible on their own.
C4_Witness ==
  /\ lastOp[1] = "loadPresets"
  /\ lastErr = "AlreadyExists"
  /\ ~ \E c \in pre.Countries : c.CountryId = 49
  /\ \E c \in pre.Countries : c.CountryId = 44
  /\ db = pre

\* C5: loadPresets called on a database that already holds the fixture
\* rows fails with a duplicate primary key and leaves the rows unchanged.
C5_NotIdempotent ==
  (lastOp[1] = "loadPresets" /\ HoldsPresetKeys(pre)) =>
    (lastErr = "AlreadyExists" /\ db = pre)

C5_Witness ==
  /\ lastOp[1] = "loadPresets"
  /\ HoldsPresetKeys(pre)
  /\ PresetCities \subseteq pre.Cities
  /\ lastErr = "AlreadyExists"

QueryDone == lastOp[1] = "query" /\ cursor = {}

FixtureDb == [exists |-> TRUE, Countries |-> PresetCountries, Cities |-> PresetCities]

NamesOf(country) == {country.Cities[k].StringVal : k \in 1..Len(country.Cities)}

\* C6: the query yields exactly one row per Country row, whose Cities array
\* has as many elements as there are City rows with that CountryId; on the
\* fixture alone the rows are Germany with Berlin, Hamburg, Dresden and
\* United Kingdom with London, Liverpool, Bristol, Newcastle.
C6_OneRowPerCountry ==
  QueryDone =>
    /\ \E p \in Perms(db.Countries) :
         /\ Len(rows) = Len(p)
         /\ \A i \in 1..Len(p) :
              /\ rows[i].Name = p[i].Name.v
              /\ Len(rows[i].Cities) =
                   Cardinality({b \in db.Cities : b.CountryId = p[i].CountryId})
    /\ db = FixtureDb =>
         /\ \A i \in 1..Len(rows) : \A k \in 1..Len(rows[i].Cities) : rows[i].Cities[k].Valid
         /\ {<<rows[i].Name, NamesOf(rows[i])>> : i \in 1..Len(rows)} =
              {<<Germany, {Berlin, Hamburg, Dresden}>>,
               <<UnitedKingdom, {London, Liverpool, Bristol, Newcastle}>>}

C6_Witness ==
  /\ QueryDone
  /\ Len(rows) = 3
  /\ PresetCities \subseteq db.Cities
  /\ \E i \in 1..Len(rows) : Len(rows[i].Cities) = 0

\* C8 as stated: every row has its line Name, ": " and a joined part that
\* has exactly one ", "-separated element per element of the Cities array,
\* in array order, the value for a non-null element and the null marker
\* for a null one.
C8_Original ==
  /\ Len(out) = Len(rows)
  /\ \A i \in 1..Len(rows) :
       /\ HeadPart(out[i], rows[i]) = rows[i].Name \o ColonSep
       /\ HasElements(JoinedPart(out[i], rows[i]), RenderedAll(rows[i]))

\* C8 amended: every row has its line Name, ": " and the texts of the
\* elements of the Cities array in array order with ", " between them, the
\* value for a non-null element and the null marker for a null one, none
\* dropped; the joined part has exactly one ", "-separated element per
\* array element when no city name of the row contains ", ".
C8_OneElementPerCity ==
  /\ Len(out) = Len(rows)
  /\ \A i \in 1..Len(rows) :
       /\ out[i] = rows[i].Name \o ColonSep \o Separated(RenderedAll(rows[i]))
       /\ (\A k \in 1..Len(rows[i].Cities) :
              ~ Contains(rows[i].Cities[k].StringVal, JoinSep))
            => HasElements(JoinedPart(out[i], rows[i]), RenderedAll(rows[i]))

C8_Witness ==
  \E i \in 1..Len(rows) :
    /\ Len(out) = Len(rows)
    /\ Len(rows[i].Cities) = 2
    /\ ~ rows[i].Cities[1].Valid
    /\ rows[i].Cities[2].Valid
    /\ Split(JoinedPart(out[i], rows[i]), JoinSep) = <<nullString, <<"a">> >>

\* C9: every City row has the CountryId of a stored Country row, and after
\* a Country row is deleted no City row with its CountryId remains.
C9_CitiesHaveCountry ==
  /\ \A b \in db.Cities : \E a \in db.Countries : a.CountryId = b.CountryId
  /\ (lastOp[1] = "deleteCountry" /\ lastErr = Nil) =>
       /\ ~ \E a \in db.Countries : a.CountryId = lastOp[2]
       /\ ~ \E b \in db.Cities : b.CountryId = lastOp[2]

C9_Witness ==
  /\ lastOp[1] = "deleteCountry"
  /\ \E b \in pre.Cities : b.CountryId = lastOp[2]
  /\ db.Countries # {}
  /\ ~ \E b \in db.Cities : b.CountryId = lastOp[2]

====
